---------------------------- MODULE Spec2Model ----------------------------
(***************************************************************************)
(* A model of the Wear-Ly wardrobe application:                            *)
(*   - generateCombinationHash and the try-on visualization cache          *)
(*     (services/tryon.ts, services/supabase.ts),                          *)
(*   - the two-phase upload hook (hooks/useUploadItem.ts),                  *)
(*   - the wardrobe hook's deleteItem and the deleteItem service           *)
(*     (hooks/useWardrobe.ts, services/supabase.ts).                       *)
(* Strings that the code computes with are sequences of UTF-16 code units. *)
(***************************************************************************)
EXTENDS Integers, Sequences, FiniteSets, TLC

VARIABLES
  \* --- generateCombinationHash called on its own
  hProfile,      \* the profileId argument
  hList,         \* the caller's itemIds array
  hArg,          \* the array as it was when the latest call was made
  hOut,          \* the string the latest call returned (NoString before any call)
  hFirst,        \* the string the first call returned (NoString before any call)
  \* --- try-on visualization cache
  session,       \* supabase.auth.getUser(): a user id or NoString
  table,         \* rows of outfit_visualizations
  storage,       \* object paths present in the isolated-images bucket
  now,           \* Date.now()
  call,          \* the getTryOnVisualization invocations, one record each
  \* --- two-phase upload hook (useUploadItem) and what it writes
  detectedItems, \* useState: the detected items with their selected flags
  isAnalyzing,   \* useState
  isProcessing,  \* useState
  currentStep,   \* useState
  progress,      \* useState
  error,         \* useState: a message or Null
  analysis,      \* the analyzeImage call in flight: where it is
  analyzed,      \* the analyzeImage call: what it has returned, what it has called
  run,           \* the processSelectedItems call: its locals and where it is
  uploads,       \* storage uploads started and not settled yet
  objects,       \* objects in the wardrobe-images and isolated-images buckets
  itemsTable,    \* rows of the items table
  uuids,         \* how many ids generateUUID has handed out
  \* --- the wardrobe hook (useWardrobe)
  wardrobeItems, \* useState items: the list the closet shows
  isLoading,     \* useState
  wardrobeError, \* useState error: a message or Null
  op,            \* the fetchItems or deleteItem call in flight
  \* --- the closet's other service calls and hooks
  lookup,        \* the getVisualizationByItemIds call: its argument and result
  \* --- useOutfitGeneration and the outfits table
  genIsLoading,  \* useState isLoading
  genError,      \* useState error: a message or Null
  currentOutfit, \* useState: the suggestion shown, or NoSuggestion
  gen,           \* the generateOutfitSuggestion call: its position and result
  outfitsTable,  \* the rows of outfits
  saved,         \* how the last saveOutfit call ended
  \* --- getUserProfile and the profiles table
  profiles,      \* the rows of profiles
  getters,       \* the getUserProfile calls: position and result of each
  \* --- useOutfitHistory
  outfits,       \* useState: the saved outfits the history screen lists
  historyError,  \* useState error: a message or Null
  isDeleting,    \* useState
  del            \* the deleteOutfit call: its position and result

cacheVars == <<table, storage, now, call>>
tryonVars == <<session, cacheVars>>
hashVars == <<hProfile, hList, hArg, hOut, hFirst>>
hookVars == <<detectedItems, isAnalyzing, isProcessing, currentStep, progress, error>>
uploadVars == <<hookVars, analysis, analyzed, run, uploads, objects, itemsTable, uuids>>
wardrobeVars == <<wardrobeItems, isLoading, wardrobeError, op>>
lookupVars == <<lookup>>
outfitVars == <<genIsLoading, genError, currentOutfit, gen, outfitsTable, saved>>
profileVars == <<profiles, getters>>
historyVars == <<outfits, historyError, isDeleting, del>>
moreVars == <<lookupVars, outfitVars, profileVars, historyVars>>
vars == <<hashVars, tryonVars, uploadVars, wardrobeVars, moreVars>>

\* What the code has as null or undefined, one value per type.
Null == "null"
NoString == <<>>
NoRow == [ id |-> 0 ]
NoPath == [ ext |-> "none" ]

\* ------------------------------------------------------------------------
\* Bounds of the model
\* ------------------------------------------------------------------------
MaxItems == 3
MaxCalls == 2
MaxNow == 2

\* ------------------------------------------------------------------------
\* Strings as sequences of code units
\* ------------------------------------------------------------------------
Underscore == <<95>>

\* Two user ids and three item ids ("a", "ab", "b"); "ab" has "a" as a prefix,
\* so that the comparison by code units has to look at the lengths too.
ProfileIds == { <<117, 49>>, <<117, 50>> }
ItemIds == { <<97>>, <<97, 98>>, <<98>> }

Min(a, b) == IF a < b THEN a ELSE b

\* s < t in the order Array.prototype.sort uses by default (code units).
RECURSIVE StrLess(_, _)
StrLess(s, t) ==
  IF t = <<>> THEN FALSE
  ELSE IF s = <<>> THEN TRUE
  ELSE IF Head(s) # Head(t) THEN Head(s) < Head(t)
  ELSE StrLess(Tail(s), Tail(t))

\* x put in its place in the sorted sequence srt.
RECURSIVE InsertSorted(_, _)
InsertSorted(x, srt) ==
  IF srt = <<>> THEN <<x>>
  ELSE IF StrLess(x, Head(srt)) THEN <<x>> \o srt
  ELSE <<Head(srt)>> \o InsertSorted(x, Tail(srt))

\* A mutant of SortIds: the ids are left in the order given.
SortIdsNoSort(ids) == ids

\* [...itemIds].sort()
RECURSIVE SortIds(_)
SortIds(ids) ==
  IF ids = <<>> THEN <<>>
  ELSE InsertSorted(Head(ids), SortIds(Tail(ids)))

\* parts.join("_")
RECURSIVE Join(_)
Join(parts) ==
  IF parts = <<>> THEN <<>>
  ELSE IF Len(parts) = 1 THEN Head(parts)
  ELSE Head(parts) \o Underscore \o Join(Tail(parts))

\* s.slice(0, n)
Slice0(s, n) == SubSeq(s, 1, Min(n, Len(s)))

\* The 32-bit accumulator is kept as two 16-bit halves <<hi, lo>> of its
\* two's-complement bit pattern.
Half == 65536

\* hash = ((hash << 5) - hash) + char; hash = hash & hash
HashStep(h, c) ==
  LET lo == h[2] * 31 + c
      hi == h[1] * 31 + (lo \div Half)
  IN  <<hi % Half, lo % Half>>

RECURSIVE HashLoop(_, _)
HashLoop(h, s) ==
  IF s = <<>> THEN h ELSE HashLoop(HashStep(h, Head(s)), Tail(s))

\* Math.abs of the signed 32-bit value with bit pattern h, as <<hi, lo>>.
AbsHalves(h) ==
  IF h[1] < 32768 THEN h
  ELSE IF h[2] = 0 THEN <<Half - h[1], 0>>
  ELSE <<Half - 1 - h[1], Half - h[2]>>

HexDigit(d) == IF d < 10 THEN 48 + d ELSE 87 + d

\* n.toString(16) for 0 <= n < 65536, without leading zeros.
RECURSIVE Hex(_)
Hex(n) == IF n < 16 THEN <<HexDigit(n)>> ELSE Hex(n \div 16) \o <<HexDigit(n % 16)>>

\* The four hex digits of n, zero padded.
Hex4(n) ==
  <<HexDigit(n \div 4096), HexDigit((n \div 256) % 16),
    HexDigit((n \div 16) % 16), HexDigit(n % 16)>>

\* Math.abs(hash).toString(16)
AbsHex(h) ==
  LET a == AbsHalves(h)
  IN  IF a[1] = 0 THEN Hex(a[2]) ELSE Hex(a[1]) \o Hex4(a[2])

\* generateCombinationHash(profileId, itemIds): the string returned and the
\* caller's array as the call leaves it.
generateCombinationHash(profileId, itemIds) ==
  LET sortedIds == SortIds(itemIds)
      combined == profileId \o Underscore \o Join(sortedIds)
      hash == HashLoop(<<0, 0>>, combined)
  IN  [ result |-> Slice0(profileId, 8) \o Underscore \o AbsHex(hash),
        itemIds |-> itemIds ]

\* ------------------------------------------------------------------------
\* Specification SpecHash: generateCombinationHash on its own
\* ------------------------------------------------------------------------
\* Sequences over S of length at most n.
RECURSIVE SeqsUpTo(_, _)
SeqsUpTo(S, n) ==
  IF n = 0 THEN { <<>> }
  ELSE LET shorter == SeqsUpTo(S, n - 1)
       IN  shorter \cup { Append(s, x) : s \in { t \in shorter : Len(t) = n - 1 }, x \in S }

Swap(s, i, j) == [s EXCEPT ![i] = s[j], ![j] = s[i]]

TryOnIdle ==
  /\ session = NoString
  /\ table = {}
  /\ storage = {}
  /\ now = 0
  /\ call = <<>>

\* No processSelectedItems call has been made.
NoUri == [ file |-> "none", ext |-> "none" ]
NoRun ==
  [ pc |-> "none", imageUri |-> NoUri, detected |-> <<>>, selectedItems |-> <<>>,
    i |-> 0, userId |-> NoString, createdItems |-> <<>>, cleanImageUri |-> NoUri,
    itemId |-> 0, settled |-> "pending", ret |-> <<>>, failedAt |-> "none",
    log |-> <<>> ]

\* No analyzeImage call has returned: nothing returned, detectAllClothingItems
\* not called.
NoAnalyzed == [ returned |-> "none", items |-> <<>>, detectCalls |-> 0 ]

\* No getVisualizationByItemIds call has been made.
NoLookup ==
  [ pc |-> "none", itemIds |-> <<>>, result |-> NoRow, settled |-> "none",
    outcome |-> "none", hadExact |-> FALSE ]

\* What generateOutfit returns as null and currentOutfit starts as.
NoSuggestion == [ itemIds |-> <<>>, suggestion |-> <<>> ]

\* No generateOutfitSuggestion call has been made.
NoGen ==
  [ pc |-> "none", items |-> 0, aiCalls |-> 0, returned |-> NoSuggestion,
    before |-> NoSuggestion ]

\* useOutfitGeneration as constructed, an empty outfits table.
OutfitIdle ==
  /\ genIsLoading = FALSE
  /\ genError = Null
  /\ currentOutfit = NoSuggestion
  /\ gen = NoGen
  /\ outfitsTable = {}
  /\ saved = "none"

\* The screens that load the profile on mount: outfit, history, profile.
MaxCallers == 3
Callers == 1..MaxCallers

\* A screen that has not called getUserProfile.
NoGetter == [ pc |-> "idle", result |-> NoString, error |-> "none", inserted |-> FALSE ]

\* No profile row, no getUserProfile call.
ProfileIdle ==
  /\ profiles = {}
  /\ getters = [ c \in Callers |-> NoGetter ]

\* No deleteOutfit call has been made.
NoDel ==
  [ pc |-> "none", outfitId |-> 0, before |-> <<>>, message |-> Null,
    returned |-> "none", refetched |-> FALSE ]

\* useOutfitHistory with nothing listed and no call in flight.
HistoryIdle ==
  /\ outfits = <<>>
  /\ historyError = Null
  /\ isDeleting = FALSE
  /\ del = NoDel

\* The other service calls and hooks: nothing called.
MoreIdle ==
  /\ lookup = NoLookup
  /\ OutfitIdle
  /\ ProfileIdle
  /\ HistoryIdle

\* No call of the wardrobe hook is in flight.
NoOp ==
  [ pc |-> "none", itemId |-> 0, after |-> "none", wasListed |-> FALSE,
    service |-> "none", message |-> Null, settled |-> "none" ]

\* The wardrobe hook is not mounted.
WardrobeIdle ==
  /\ wardrobeItems = <<>>
  /\ isLoading = TRUE
  /\ wardrobeError = Null
  /\ op = NoOp

\* useUploadItem as constructed, nothing uploaded.
UploadIdle ==
  /\ detectedItems = <<>>
  /\ isAnalyzing = FALSE
  /\ isProcessing = FALSE
  /\ currentStep = "idle"
  /\ progress = [ currentItem |-> 0, totalItems |-> 0 ]
  /\ error = Null
  /\ analysis = "none"
  /\ analyzed = NoAnalyzed
  /\ run = NoRun
  /\ uploads = {}
  /\ objects = {}
  /\ itemsTable = {}
  /\ uuids = 0

HashIdle ==
  /\ hProfile = <<117, 49>>
  /\ hList = <<>>
  /\ hArg = <<>>
  /\ hOut = NoString
  /\ hFirst = NoString

InitHash ==
  /\ hProfile \in ProfileIds
  /\ hList \in SeqsUpTo(ItemIds, MaxItems)
  /\ hArg = hList
  /\ hOut = NoString
  /\ hFirst = NoString
  /\ TryOnIdle
  /\ UploadIdle
  /\ WardrobeIdle
  /\ MoreIdle

\* A caller computes the hash of its array.
CallHash ==
  LET r == generateCombinationHash(hProfile, hList)
  IN  /\ hArg' = hList
      /\ hList' = r.itemIds
      /\ hOut' = r.result
      /\ hFirst' = IF hFirst = NoString THEN r.result ELSE hFirst
      /\ UNCHANGED <<hProfile, tryonVars, uploadVars, wardrobeVars, moreVars>>

\* The caller reorders its array between two calls.
Permute ==
  \E i, j \in 1..Len(hList) :
    /\ i < j
    /\ hList' = Swap(hList, i, j)
    /\ hArg' = Swap(hList, i, j)
    /\ UNCHANGED <<hProfile, hOut, hFirst, tryonVars, uploadVars, wardrobeVars, moreVars>>

NextHash == CallHash \/ Permute

SpecHash == InitHash /\ [][NextHash]_vars

\* C5: generateCombinationHash returns the same string for every permutation
\* of the item list (every call made after reordering the array returns what
\* the first call returned), and the array passed in is left as it was.
C5_OrderIndependent ==
  /\ (hOut # NoString => hOut = hFirst)
  /\ hList = hArg

\* C5 witness: the hash was computed for an array that is not in sorted order
\* and has at least two different ids.
C5_Witness ==
  /\ hOut # NoString
  /\ Len(hList) >= 2
  /\ hList # SortIds(hList)


\* ------------------------------------------------------------------------
\* The try-on visualization cache
\* ------------------------------------------------------------------------
\* The user of this device.
UserId == <<117, 49>>

\* The item lists a screen passes: one outfit in two orders, and another one.
TryOnLists == { << <<97>>, <<98>> >>, << <<98>>, <<97>> >>, << <<97, 98>> >> }

Range(s) == { s[i] : i \in DOMAIN s }

\* The model's answer: the mime type decides the extension of the local file
\* generateTryOnVisualization writes (tryon_<time>.<ext>).
LocalExts == { "png", "jpeg" }

\* imageUri.toLowerCase().endsWith(".png") ? "png" : "jpg"
UploadExtension(localExt) == IF localExt = "png" THEN "png" ELSE "jpg"

\* forceRegenerate ? `${combinationHash}_${Date.now()}` : combinationHash
TimestampedHash(forceRegenerate, combinationHash, time) ==
  [ hash |-> combinationHash, stamp |-> IF forceRegenerate THEN time ELSE 0 ]

\* `${userId}/visualizations/${hash}.${extension}`
VisualizationPath(userId, name, localExt) ==
  [ user |-> userId, name |-> name, ext |-> UploadExtension(localExt) ]

\* Rows a select on combination_hash returns under the SELECT policy
\* (auth.uid() = user_id).
VisibleRows(tbl, uid, combinationHash) ==
  { r \in tbl : r.combination_hash = combinationHash /\ r.user_id = uid }

\* .single(): the row when exactly one comes back, no data otherwise (PGRST116).
Single(rows) == IF Cardinality(rows) = 1 THEN CHOOSE r \in rows : TRUE ELSE NoRow

\* Mutants of UpsertRows: a plain insert, and an insert that leaves an
\* existing row as it is.
UpsertRowsAsInsert(tbl, insertData) ==
  tbl \cup { [ id |-> Cardinality(tbl) + 1 ] @@ insertData }

UpsertRowsIgnoreDuplicates(tbl, insertData) ==
  IF \E r \in tbl : r.combination_hash = insertData.combination_hash
    THEN tbl
    ELSE tbl \cup { [ id |-> Cardinality(tbl) + 1 ] @@ insertData }

\* .upsert(insertData, { onConflict: "combination_hash" }): the rows after it.
UpsertRows(tbl, insertData) ==
  IF \E r \in tbl : r.combination_hash = insertData.combination_hash
    THEN { IF r.combination_hash = insertData.combination_hash
             THEN [ id |-> r.id ] @@ insertData
             ELSE r : r \in tbl }
    ELSE tbl \cup { [ id |-> Cardinality(tbl) + 1 ] @@ insertData }

\* The policies the upsert has to pass: INSERT (auth.uid() = user_id) and, on
\* a conflicting row, UPDATE (auth.uid() = user_id of the row).
UpsertAllowed(tbl, uid, insertData) ==
  /\ uid = insertData.user_id
  /\ \A r \in tbl : r.combination_hash = insertData.combination_hash => r.user_id = uid

NewCall(items, forceRegenerate) ==
  [ pc |-> "auth", items |-> items, force |-> forceRegenerate, userId |-> NoString,
    hash |-> NoString, localUri |-> Null, url |-> NoPath,
    result |-> NoRow, log |-> <<>>,
    overwritten |-> FALSE, supersededByForced |-> FALSE ]

Logged(c, name) == Append(c.log, name)

\* The call rejects: its promise settles and its locals are gone.
Rejected(c) ==
  [ NewCall(<<>>, c.force) EXCEPT !.pc = "failed", !.log = c.log ]

\* The call resolves to row.
Resolved(c, row) ==
  [ c EXCEPT !.pc = "done", !.localUri = Null, !.url = NoPath, !.result = row ]

InitTryOn ==
  /\ session \in { NoString, UserId }
  /\ table = {}
  /\ storage = {}
  /\ now = 1
  /\ call = <<>>
  /\ HashIdle
  /\ UploadIdle
  /\ WardrobeIdle
  /\ MoreIdle

\* The user signs in. (A sign-out while a call is in flight makes its next
\* getCurrentUserId() throw, which the failing branch of each step covers.)
SignIn ==
  /\ session = NoString
  /\ session' = UserId
  /\ UNCHANGED <<cacheVars, hashVars, uploadVars, wardrobeVars, moreVars>>

\* A screen calls getTryOnVisualization(personalModelUrl, clothingItems, force).
Invoke ==
  \E items \in TryOnLists, forceRegenerate \in BOOLEAN :
    /\ Len(call) < MaxCalls
    /\ call' = Append(call, NewCall(items, forceRegenerate))
    /\ UNCHANGED <<session, table, storage, now, hashVars, uploadVars, wardrobeVars, moreVars>>

\* await getCurrentUserId(), then the hash of the item ids.
Authenticate(p) ==
  /\ call[p].pc = "auth"
  /\ IF session = NoString
       THEN call' = [call EXCEPT ![p] = Rejected(call[p])]
       ELSE call' = [call EXCEPT
              ![p].userId = session,
              ![p].hash = generateCombinationHash(session, call[p].items).result,
              ![p].pc = IF call[p].force THEN "generate" ELSE "check"]
  /\ UNCHANGED <<session, table, storage, now, hashVars, uploadVars, wardrobeVars, moreVars>>

\* A mutant of CheckCache: the cached row is read and not returned.
CheckCacheNeverReturns(p) ==
  /\ call[p].pc = "check"
  /\ call' = [call EXCEPT
       ![p].log = Logged(call[p], "getCachedVisualization"),
       ![p].pc = "generate"]
  /\ UNCHANGED <<session, table, storage, now, hashVars, uploadVars, wardrobeVars, moreVars>>

\* await getCachedVisualization(combinationHash); if (cached) return cached.
CheckCache(p) ==
  /\ call[p].pc = "check"
  /\ \E ok \in BOOLEAN :
       LET cached == Single(VisibleRows(table, session, call[p].hash))
           c == [call[p] EXCEPT !.log = Logged(call[p], "getCachedVisualization")]
       IN  call' = [call EXCEPT ![p] =
             IF ~ok THEN Rejected(c)
             ELSE IF cached # NoRow THEN Resolved(c, cached)
             ELSE [c EXCEPT !.pc = "generate"]]
  /\ UNCHANGED <<session, table, storage, now, hashVars, uploadVars, wardrobeVars, moreVars>>

\* await generateTryOnVisualization(personalModelUrl, clothingItems)
Generate(p) ==
  /\ call[p].pc = "generate"
  /\ LET c == [call[p] EXCEPT !.log = Logged(call[p], "generateTryOnVisualization")]
     IN  \/ \E ext \in LocalExts :
              call' = [call EXCEPT ![p] = [c EXCEPT !.localUri = ext, !.pc = "upload"]]
         \/ call' = [call EXCEPT ![p] = Rejected(c)]
  /\ UNCHANGED <<session, table, storage, now, hashVars, uploadVars, wardrobeVars, moreVars>>

\* await uploadVisualizationImage(localUri, timestampedHash): uploadImage with
\* upsert: false, which fails when the path is taken.
Upload(p) ==
  /\ call[p].pc = "upload"
  /\ \E time \in now..MaxNow, ok \in BOOLEAN :
       LET c == [call[p] EXCEPT !.log = Logged(call[p], "uploadVisualizationImage")]
           name == TimestampedHash(c.force, c.hash, time)
           path == VisualizationPath(session, name, c.localUri)
       IN  /\ now' = IF c.force THEN time ELSE now
           /\ IF ok /\ session # NoString /\ path \notin storage
                THEN /\ storage' = storage \cup { path }
                     /\ call' = [call EXCEPT ![p] = [c EXCEPT !.url = path, !.pc = "save"]]
                ELSE /\ storage' = storage
                     /\ call' = [call EXCEPT ![p] = Rejected(c)]
  /\ UNCHANGED <<session, table, hashVars, uploadVars, wardrobeVars, moreVars>>

\* The record of another call q once p's upsert went through: which earlier
\* results it has replaced.
AfterSaveOf(p, q) ==
  IF q # p /\ call[q].pc = "done" /\ call[q].hash = call[p].hash
    THEN [call[q] EXCEPT
           !.overwritten = TRUE,
           !.supersededByForced = call[q].supersededByForced \/ call[p].force]
    ELSE call[q]

\* await saveVisualization(combinationHash, itemIds, visualizationUrl)
Save(p) ==
  /\ call[p].pc = "save"
  /\ \E ok \in BOOLEAN :
       LET c == [call[p] EXCEPT !.log = Logged(call[p], "saveVisualization")]
           insertData == [ user_id |-> session, combination_hash |-> c.hash,
                           item_ids |-> c.items, visualization_url |-> c.url ]
       IN  IF ok /\ session # NoString /\ UpsertAllowed(table, session, insertData)
             THEN /\ table' = UpsertRows(table, insertData)
                  /\ call' = [q \in DOMAIN call |->
                       IF q = p
                         THEN Resolved(c, Single(VisibleRows(table', session, c.hash)))
                         ELSE AfterSaveOf(p, q)]
             ELSE /\ table' = table
                  /\ call' = [call EXCEPT ![p] = Rejected(c)]
  /\ UNCHANGED <<session, storage, now, hashVars, uploadVars, wardrobeVars, moreVars>>

NextTryOn ==
  \/ SignIn
  \/ Invoke
  \/ \E p \in DOMAIN call : Authenticate(p)
  \/ \E p \in DOMAIN call : CheckCache(p)
  \/ \E p \in DOMAIN call : Generate(p)
  \/ \E p \in DOMAIN call : Upload(p)
  \/ \E p \in DOMAIN call : Save(p)

SpecTryOn == InitTryOn /\ [][NextTryOn]_vars

\* The calls a call has made so far, by the way it went.
HitLog == << "getCachedVisualization" >>
GeneratedLog ==
  << "generateTryOnVisualization", "uploadVisualizationImage", "saveVisualization" >>
MissLog == HitLog \o GeneratedLog

\* Two calls of the same user for the same item ids, in whatever order.
SameCombination(c, d) ==
  /\ c.userId = d.userId
  /\ Len(c.items) = Len(d.items)
  /\ Range(c.items) = Range(d.items)

\* The row a select on the call's hash is served.
RowFor(c) == Single(VisibleRows(table, c.userId, c.hash))

Settled(c) == c.pc \in { "done", "failed" }

\* Call p takes its getCachedVisualization step.
ReadsCache(p) == call[p].pc = "check" /\ call'[p].pc # "check"

\* A settled call makes no further call and keeps its result.
SettledStays ==
  \A p \in DOMAIN call :
    Settled(call[p]) =>
      /\ call'[p].pc = call[p].pc
      /\ call'[p].log = call[p].log
      /\ call'[p].result = call[p].result

\* C1: a non-forced getTryOnVisualization of an authenticated user that finds a
\* row for its combination hash returns that row (or rejects when the lookup
\* itself errors); it has made the cache lookup and nothing else, makes no
\* call afterwards, and leaves the table and the storage as they were.
C1_CacheHitFrame ==
  [][ /\ SettledStays
      /\ \A p \in DOMAIN call :
           LET rows == VisibleRows(table, session, call[p].hash)
           IN  (ReadsCache(p) /\ rows # {}) =>
                 /\ table' = table
                 /\ storage' = storage
                 /\ Settled(call'[p])
                 /\ call'[p].log = HitLog
                 /\ (call'[p].pc = "done" => call'[p].result \in rows) ]_vars

\* C1 witness: a non-forced call has returned a row of the table after the
\* cache lookup alone.
C1_Witness ==
  \E p \in DOMAIN call :
    /\ call[p].pc = "done"
    /\ ~call[p].force
    /\ call[p].log = HitLog
    /\ call[p].result \in table

\* A non-forced call that missed the cache and succeeded.
SucceededOnMiss(c) == c.pc = "done" /\ ~c.force /\ c.log # HitLog

\* A non-forced call that succeeds after a miss has generated, uploaded and
\* upserted once each, in this order, and returns the row it upserted.
MissPath(c) ==
  SucceededOnMiss(c) =>
    /\ c.log = MissLog
    /\ c.result.combination_hash = c.hash
    /\ c.result.item_ids = c.items
    /\ c.result.user_id = c.userId

C3_ForceRegenerate ==
  /\ [](\A p \in DOMAIN call :
          call[p].force =>
            /\ \A i \in DOMAIN call[p].log : call[p].log[i] # "getCachedVisualization"
            /\ (call[p].pc = "done" =>
                  /\ call[p].log = GeneratedLog
                  /\ (~call[p].overwritten => RowFor(call[p]) = call[p].result)))
  /\ [][\A p \in DOMAIN call :
          (call[p].force /\ call[p].pc = "save" /\ call'[p].pc = "done") =>
            /\ call[p].url \in storage
            /\ VisibleRows(table', call[p].userId, call[p].hash) = { call'[p].result }
            /\ call'[p].result.visualization_url = call[p].url
            /\ \A r \in table : r.visualization_url # call[p].url ]_vars
  /\ [][\A q \in DOMAIN call : \A p \in DOMAIN call :
          ( /\ ReadsCache(q)
            /\ call'[q].pc # "failed"
            /\ call[p].pc = "done" /\ call[p].force /\ ~call[p].overwritten
            /\ SameCombination(call[p], call[q]) ) =>
              /\ call'[q].pc = "done"
              /\ call'[q].result.visualization_url =
                   call[p].result.visualization_url ]_vars

\* C3 witness: a forced call succeeded on a combination for which another call
\* had stored a visualization before, and the row now holds the forced call's
\* URL, not the earlier one.
C3_Witness ==
  \E p \in DOMAIN call : \E q \in DOMAIN call :
    /\ call[p].pc = "done" /\ call[p].force /\ ~call[p].overwritten
    /\ call[q].pc = "done" /\ call[q].overwritten /\ call[q].hash = call[p].hash
    /\ RowFor(call[p]).visualization_url = call[p].result.visualization_url
    /\ call[q].result.visualization_url # call[p].result.visualization_url

\* C4: outfit_visualizations holds at most one row per combination_hash.
C4_OneRowPerHash ==
  \A r1 \in table : \A r2 \in table :
    r1.combination_hash = r2.combination_hash => r1 = r2

\* C4 witness: a visualization was saved for a hash that had a row already
\* (the earlier call's result has been overwritten), and other hashes have
\* rows too.
C4_Witness ==
  /\ \E p \in DOMAIN call : call[p].pc = "done" /\ call[p].overwritten
  /\ Cardinality(table) >= 1

-----------------------------------------------------------------------------
\* The two-phase upload hook: analyzeImage detects the items of a photo, the
\* user selects, processSelectedItems generates, uploads and saves them.

MaxDetected == 2

\* The photo the user picked: a local file URI.
PhotoUris == { [ file |-> "photo", ext |-> "jpg" ], [ file |-> "photo", ext |-> "png" ] }

\* A mutant of DetectedWithSelection: the index left out of the temporary id.
DetectedWithSelectionSameIds(n, time) ==
  [ index \in 1..n |->
      [ index |-> index - 1, id |-> <<"detected", 0, time>>, selected |-> TRUE ] ]

\* What detectAllClothingItems found: n items, each with its metadata (the
\* position in the detection stands for category, colour and the rest), turned
\* into DetectedItems with a temporary id and selected by default.
DetectedWithSelection(n, time) ==
  [ index \in 1..n |->
      [ index |-> index - 1, id |-> <<"detected", index - 1, time>>, selected |-> TRUE ] ]

\* The errors the steps of the hook can throw: whether it is an instance of
\* Error, its message, and the keywords of the catch blocks its message holds.
SignInError ==
  [ isError |-> TRUE, message |-> "Please sign in to upload items.",
    words |-> { "sign in", "upload" } ]
NoItemsError ==
  [ isError |-> TRUE,
    message |-> "Couldn't identify any clothing items. Please try a clearer photo.",
    words |-> {} ]
DetectErrors ==
  { [ isError |-> TRUE, message |-> "Network request failed", words |-> { "network" } ],
    [ isError |-> TRUE, message |-> "AI service is busy", words |-> { "busy" } ],
    [ isError |-> TRUE, message |-> "Failed to analyze image", words |-> {} ] }
UploadErrors ==
  { [ isError |-> TRUE, message |-> "Network request failed", words |-> { "network" } ],
    [ isError |-> TRUE, message |-> "The resource already exists", words |-> {} ] }
NoPublicUrlError ==
  [ isError |-> TRUE, message |-> "Failed to get public URL for uploaded image",
    words |-> { "upload" } ]
CreateErrors ==
  { [ isError |-> FALSE, message |-> "new row violates row-level security policy",
      words |-> {} ],
    [ isError |-> TRUE, message |-> "Failed to create item: no data returned",
      words |-> {} ] }

Has(err, keywords) == err.words \cap keywords # {}

\* The message the catch block of analyzeImage shows for err.
AnalyzeErrorMessage(err) ==
  IF ~err.isError THEN "Failed to analyze image. Please try again."
  ELSE IF Has(err, { "network", "fetch" }) THEN "Network error. Please check your connection."
  ELSE IF Has(err, { "auth", "sign in" }) THEN "Please sign in to upload items."
  ELSE IF Has(err, { "quota", "busy" }) THEN "AI service is busy. Please wait and try again."
  ELSE err.message

\* A mutant of ProcessErrorMessage: the catch block sets no message.
ProcessErrorMessageNone(err) == Null

\* The message the catch block of processSelectedItems shows for err.
ProcessErrorMessage(err) ==
  IF ~err.isError THEN "Something went wrong. Please try again."
  ELSE IF Has(err, { "network", "fetch" })
    THEN "Network error. Please check your connection and try again."
  ELSE IF Has(err, { "auth", "sign in" }) THEN "Please sign in to upload items."
  ELSE IF Has(err, { "api", "gemini" }) THEN "AI image generation failed. Please try again."
  ELSE IF Has(err, { "quota", "busy" })
    THEN "AI service is busy. Please wait a moment and try again."
  ELSE IF Has(err, { "storage", "upload" })
    THEN "Failed to upload images. Please check your connection."
  ELSE IF Has(err, { "database", "save" }) THEN "Failed to save items. Please try again."
  ELSE err.message

\* How a generateCleanProductImage call can go.
GenerationFailures ==
  { "no-api-key", "read-fails", "model-throws", "no-candidates", "no-image-part", "write-fails" }
GenerationOutcomes == GenerationFailures \cup { "image-png", "image-jpeg" }

\* The file the generated image is written to: generated_<time>.<ext>, with
\* ext "png" when the MIME type of the image says png and "jpeg" otherwise.
GeneratedImageUri(outcome) ==
  [ file |-> "generated", ext |-> IF outcome = "image-png" THEN "png" ELSE "jpeg" ]

\* generateCleanProductImage(originalImageUri, itemMetadata): the whole body is
\* in a try block whose catch returns the original URI, and so do the two
\* branches for a response without an image.
generateCleanProductImage(originalImageUri, itemMetadata, outcome) ==
  IF outcome \in GenerationFailures
    THEN [ settled |-> "resolved", uri |-> originalImageUri ]
    ELSE [ settled |-> "resolved", uri |-> GeneratedImageUri(outcome) ]

\* The path uploadOriginalImage stores under, and the one of uploadIsolatedImage.
OriginalPath(userId, itemId, imageUri) ==
  [ bucket |-> "wardrobe-images", user |-> userId, item |-> itemId,
    name |-> IF imageUri.ext = "png" THEN "original.png" ELSE "original.jpg" ]
IsolatedPath(userId, itemId) ==
  [ bucket |-> "isolated-images", user |-> userId, item |-> itemId,
    name |-> "isolated.png" ]

\* The content type uploadImage sends the file of imageUri with.
ContentType(imageUri) == IF imageUri.ext = "png" THEN "image/png" ELSE "image/jpeg"

\* The MIME types the buckets are set up to allow.
AllowedMimeTypes(bucket) ==
  IF bucket = "isolated-images" THEN { "image/png" }
  ELSE { "image/jpeg", "image/png", "image/heic" }

\* An uploadImage(bucket, path, imageUri) call: what it sends.
UploadOf(fn, path, imageUri) ==
  [ fn |-> fn, path |-> path, content |-> imageUri.file,
    contentType |-> ContentType(imageUri) ]

\* Whether the bucket takes the upload: its path is free (upsert: false) and
\* its content type is one the bucket allows.
Accepted(objs, u) ==
  /\ \A o \in objs : o.path # u.path
  /\ u.contentType \in AllowedMimeTypes(u.path.bucket)

\* detectedItems.filter(item => item.selected)
RECURSIVE Filter(_)
\* A mutant of SelectedItems: the selected flags are ignored.
SelectedItemsAll(detected) == detected
Filter(detected) ==
  IF detected = <<>> THEN <<>>
  ELSE IF Head(detected).selected THEN <<Head(detected)>> \o Filter(Tail(detected))
  ELSE Filter(Tail(detected))
SelectedItems(detected) == Filter(detected)

MaxUuid == 2

NoProgress == [ currentItem |-> 0, totalItems |-> 0 ]

InitUpload ==
  /\ session \in { NoString, UserId }
  /\ table = {}
  /\ storage = {}
  /\ now = 1
  /\ call = <<>>
  /\ HashIdle
  /\ UploadIdle
  /\ WardrobeIdle
  /\ MoreIdle

\* The screen shows the detected items, their checkboxes and the buttons over
\* them when no analysis and no processing is going on.
SelectionShown == ~isAnalyzing /\ ~isProcessing /\ Len(detectedItems) > 0

\* The model follows one analyzeImage or processSelectedItems call at a time.
NothingInFlight == analysis = "none" /\ run.pc \in { "none", "settled" }

\* The record of the processSelectedItems call once the user has gone on: a
\* call that has settled has handed its result to the screen and is gone.
Returned(r) == IF r.pc = "settled" THEN NoRun ELSE r

\* resetState()
ResetState ==
  /\ detectedItems' = <<>>
  /\ error' = Null
  /\ currentStep' = "idle"
  /\ progress' = NoProgress
  /\ isAnalyzing' = FALSE
  /\ isProcessing' = FALSE
  /\ hookVars' # hookVars
  /\ run' = Returned(run)
  /\ UNCHANGED <<analysis, uploads, objects, itemsTable, uuids>>
  /\ UNCHANGED <<tryonVars, hashVars, wardrobeVars, moreVars>>
  /\ UNCHANGED analyzed

\* toggleItemSelection(itemId), itemId being the id of a detected item
toggleItemSelection ==
  \E k \in 1..Len(detectedItems) :
    /\ SelectionShown
    /\ detectedItems' =
         [ j \in 1..Len(detectedItems) |->
             IF detectedItems[j].id = detectedItems[k].id
               THEN [ detectedItems[j] EXCEPT !.selected = ~detectedItems[j].selected ]
               ELSE detectedItems[j] ]
    /\ run' = Returned(run)
    /\ UNCHANGED <<isAnalyzing, isProcessing, currentStep, progress, error>>
    /\ UNCHANGED <<analysis, uploads, objects, itemsTable, uuids>>
    /\ UNCHANGED <<tryonVars, hashVars, wardrobeVars, moreVars>>
    /\ UNCHANGED analyzed

\* selectAllItems()
selectAllItems ==
  /\ SelectionShown
  /\ detectedItems' =
       [ j \in 1..Len(detectedItems) |-> [ detectedItems[j] EXCEPT !.selected = TRUE ] ]
  /\ detectedItems' # detectedItems
  /\ run' = Returned(run)
  /\ UNCHANGED <<isAnalyzing, isProcessing, currentStep, progress, error>>
  /\ UNCHANGED <<analysis, uploads, objects, itemsTable, uuids>>
  /\ UNCHANGED <<tryonVars, hashVars, wardrobeVars, moreVars>>
  /\ UNCHANGED analyzed

\* deselectAllItems()
deselectAllItems ==
  /\ SelectionShown
  /\ detectedItems' =
       [ j \in 1..Len(detectedItems) |-> [ detectedItems[j] EXCEPT !.selected = FALSE ] ]
  /\ detectedItems' # detectedItems
  /\ run' = Returned(run)
  /\ UNCHANGED <<isAnalyzing, isProcessing, currentStep, progress, error>>
  /\ UNCHANGED <<analysis, uploads, objects, itemsTable, uuids>>
  /\ UNCHANGED <<tryonVars, hashVars, wardrobeVars, moreVars>>
  /\ UNCHANGED analyzed

\* analyzeImage(imageUri) up to its first await.
analyzeImage ==
  /\ NothingInFlight
  /\ isAnalyzing' = TRUE
  /\ error' = Null
  /\ currentStep' = "analyzing"
  /\ detectedItems' = <<>>
  /\ analysis' = "auth"
  /\ analyzed' = NoAnalyzed
  /\ run' = Returned(run)
  /\ UNCHANGED <<isProcessing, progress, uploads, objects, itemsTable, uuids>>
  /\ UNCHANGED <<tryonVars, hashVars, wardrobeVars, moreVars>>

\* The catch block of analyzeImage.
AnalyzeCatch(err) ==
  /\ error' = AnalyzeErrorMessage(err)
  /\ isAnalyzing' = FALSE
  /\ currentStep' = "idle"
  /\ analysis' = "none"
  /\ analyzed' = [ analyzed EXCEPT !.returned = "null" ]
  /\ UNCHANGED <<detectedItems, isProcessing, progress>>

\* await getCurrentUserId() in analyzeImage
AnalyzeAuth ==
  /\ analysis = "auth"
  /\ IF session = NoString
       THEN AnalyzeCatch(SignInError)
       ELSE /\ analysis' = "detect"
            /\ analyzed' = [ analyzed EXCEPT !.detectCalls = 1 ]
            /\ UNCHANGED hookVars
  /\ UNCHANGED <<run, uploads, objects, itemsTable, uuids>>
  /\ UNCHANGED <<tryonVars, hashVars, wardrobeVars, moreVars>>

\* await detectAllClothingItems(imageUri) and the rest of analyzeImage
AnalyzeDetect ==
  /\ analysis = "detect"
  /\ \/ \E n \in 1..MaxDetected :
          /\ detectedItems' = DetectedWithSelection(n, now)
          /\ currentStep' = "idle"
          /\ isAnalyzing' = FALSE
          /\ analysis' = "none"
          /\ analyzed' = [ analyzed EXCEPT !.returned = "list",
                                           !.items = DetectedWithSelection(n, now) ]
          /\ UNCHANGED <<isProcessing, progress, error>>
     \/ AnalyzeCatch(NoItemsError)
     \/ \E err \in DetectErrors : AnalyzeCatch(err)
  /\ UNCHANGED <<run, uploads, objects, itemsTable, uuids>>
  /\ UNCHANGED <<tryonVars, hashVars, wardrobeVars, moreVars>>

\* A processSelectedItems call as it starts.
NewRun(imageUri, detected, selected) ==
  [ NoRun EXCEPT !.pc = "auth", !.imageUri = imageUri, !.detected = detected,
                 !.selectedItems = selected ]

\* A call of a service function for the item at position i of the selection.
CallOf(fn, r) == [ fn |-> fn, index |-> r.selectedItems[r.i].index ]

\* A mutant of CatchResult: the items created so far are dropped.
CatchResultEmpty(r, step) ==
  [ r EXCEPT !.pc = "settled", !.settled = "resolved", !.ret = <<>>, !.failedAt = step ]

\* The catch block of processSelectedItems as the call sees it: it returns
\* createdItems, whatever they are by then.
CatchResult(r, step) ==
  [ r EXCEPT !.pc = "settled", !.settled = "resolved", !.ret = r.createdItems,
             !.failedAt = step ]

\* The catch block of processSelectedItems.
ProcessCatch(err, step) ==
  /\ error' = ProcessErrorMessage(err)
  /\ isProcessing' = FALSE
  /\ currentStep' = "idle"
  /\ progress' = NoProgress
  /\ run' = CatchResult(run, step)
  /\ UNCHANGED <<detectedItems, isAnalyzing>>

\* The head of the loop body, up to await generateCleanProductImage(...).
StartItem(r, i) ==
  /\ progress' = [ currentItem |-> i, totalItems |-> Len(r.selectedItems) ]
  /\ currentStep' = "generating-images"
  /\ run' = [ r EXCEPT !.pc = "generating", !.i = i,
                       !.log = Append(r.log, CallOf("generateCleanProductImage",
                                                    [ r EXCEPT !.i = i ])) ]

\* processSelectedItems(imageUri) up to its first await.
processSelectedItems ==
  \E imageUri \in PhotoUris :
    /\ NothingInFlight
    /\ LET selected == SelectedItems(detectedItems)
       IN  /\ uuids + Len(selected) <= MaxUuid
           /\ IF Len(selected) = 0
                THEN /\ error' = "Please select at least one item to add."
                     /\ run' = [ NoRun EXCEPT !.pc = "settled", !.settled = "resolved",
                                              !.detected = detectedItems ]
                     /\ UNCHANGED isProcessing
                ELSE /\ isProcessing' = TRUE
                     /\ error' = Null
                     /\ run' = NewRun(imageUri, detectedItems, selected)
    /\ UNCHANGED <<detectedItems, isAnalyzing, currentStep, progress>>
    /\ UNCHANGED <<analysis, uploads, objects, itemsTable, uuids>>
    /\ UNCHANGED <<tryonVars, hashVars, wardrobeVars, moreVars>>
    /\ UNCHANGED analyzed

\* await getCurrentUserId() in processSelectedItems, then the first item.
ProcessAuth ==
  /\ run.pc = "auth"
  /\ IF session = NoString
       THEN ProcessCatch(SignInError, "auth")
       ELSE /\ StartItem([ run EXCEPT !.userId = session ], 1)
            /\ UNCHANGED <<detectedItems, isAnalyzing, isProcessing, error>>
  /\ UNCHANGED <<analysis, uploads, objects, itemsTable, uuids>>
  /\ UNCHANGED <<tryonVars, hashVars, wardrobeVars, moreVars>>
  /\ UNCHANGED analyzed

\* await generateCleanProductImage(imageUri, itemMetadata) settles; both
\* uploads of Promise.all start.
GenerateSettles ==
  \E outcome \in GenerationOutcomes :
    /\ run.pc = "generating"
    /\ LET g == generateCleanProductImage(run.imageUri, run.selectedItems[run.i], outcome)
           itemId == uuids + 1
       IN  IF g.settled = "rejected"
             THEN /\ ProcessCatch([ isError |-> TRUE, message |-> "Gemini API error",
                                    words |-> { "api", "gemini" } ],
                                  "generating-images")
                  /\ UNCHANGED <<uploads, uuids>>
             ELSE /\ uuids' = itemId
                  /\ currentStep' = "uploading-images"
                  /\ uploads' = uploads \cup
                       { UploadOf("uploadOriginalImage",
                                  OriginalPath(run.userId, itemId, run.imageUri),
                                  run.imageUri),
                         UploadOf("uploadIsolatedImage",
                                  IsolatedPath(run.userId, itemId), g.uri) }
                  /\ run' = [ run EXCEPT !.pc = "uploading", !.cleanImageUri = g.uri,
                                         !.itemId = itemId,
                                         !.log = run.log \o
                                           << CallOf("uploadOriginalImage", run),
                                              CallOf("uploadIsolatedImage", run) >> ]
                  /\ UNCHANGED <<detectedItems, isAnalyzing, isProcessing, progress, error>>
    /\ UNCHANGED <<analysis, objects, itemsTable>>
    /\ UNCHANGED <<tryonVars, hashVars, wardrobeVars, moreVars>>
    /\ UNCHANGED analyzed

\* Whether an object is stored under the path.
Stored(objs, path) == \E o \in objs : o.path = path

\* What is in the buckets once the uploads in ups have gone their way: each
\* has landed or has not (nothing reads the buckets in between).
Landed(objs, ups) ==
  { objs \cup { [ path |-> u.path, content |-> u.content ] : u \in done } :
      done \in SUBSET { u \in ups : Accepted(objs, u) } }

\* One uploadImage call of the Promise.all settles: the file went up and its
\* public URL came back, it went up and no URL came back, or the upload failed
\* (as it does when the bucket does not take it). Promise.all rejects with the
\* first failure, and the other upload goes its way unseen.
UploadSettles ==
  \E u \in uploads, outcome \in { "stored", "no-url", "failed" } :
    /\ run.pc = "uploading"
    /\ outcome # "failed" => Accepted(objects, u)
    /\ LET objs == IF outcome = "failed" THEN objects
                   ELSE objects \cup { [ path |-> u.path, content |-> u.content ] }
       IN  IF outcome = "stored"
             THEN /\ objects' = objs
                  /\ uploads' = uploads \ { u }
                  /\ IF uploads' = {}
                       THEN /\ currentStep' = "saving"
                            /\ run' = [ run EXCEPT !.pc = "saving",
                                                   !.log = Append(run.log,
                                                                  CallOf("createItem", run)) ]
                            /\ UNCHANGED <<detectedItems, isAnalyzing, isProcessing,
                                           progress, error>>
                       ELSE UNCHANGED <<hookVars, run>>
             ELSE /\ objects' \in Landed(objs, uploads \ { u })
                  /\ uploads' = {}
                  /\ IF outcome = "failed"
                       THEN \E err \in UploadErrors : ProcessCatch(err, "uploading-images")
                       ELSE ProcessCatch(NoPublicUrlError, "uploading-images")
    /\ UNCHANGED <<analysis, itemsTable, uuids>>
    /\ UNCHANGED <<tryonVars, hashVars, wardrobeVars, moreVars>>
    /\ UNCHANGED analyzed

\* The row createItem(itemData) inserts; the public URL of an object stands
\* for its path.
ItemData(r) ==
  [ id |-> r.itemId, user_id |-> r.userId,
    image_url |-> OriginalPath(r.userId, r.itemId, r.imageUri),
    isolated_image_url |-> IsolatedPath(r.userId, r.itemId),
    metadata |-> r.selectedItems[r.i].index ]

\* await createItem(itemData) settles: the row is inserted and returned and the
\* loop goes to the next item or the call finishes, or createItem throws.
CreateItemSettles ==
  /\ run.pc = "saving"
  /\ \/ /\ itemsTable' = itemsTable \cup { ItemData(run) }
        /\ LET r == [ run EXCEPT !.createdItems = Append(run.createdItems, ItemData(run)) ]
           IN  IF run.i < Len(run.selectedItems)
                 THEN /\ StartItem(r, run.i + 1)
                      /\ UNCHANGED <<detectedItems, isAnalyzing, isProcessing, error>>
                 ELSE /\ isProcessing' = FALSE
                      /\ currentStep' = "idle"
                      /\ progress' = NoProgress
                      /\ detectedItems' = <<>>
                      /\ run' = [ r EXCEPT !.pc = "settled", !.settled = "resolved",
                                           !.ret = r.createdItems ]
                      /\ UNCHANGED <<isAnalyzing, error>>
     \/ /\ \E err \in CreateErrors : ProcessCatch(err, "saving")
        /\ UNCHANGED itemsTable
  /\ UNCHANGED <<analysis, uploads, objects, uuids>>
  /\ UNCHANGED <<tryonVars, hashVars, wardrobeVars, moreVars>>
  /\ UNCHANGED analyzed

\* The user signs in while the upload screen is open.
SignInUpload ==
  /\ session = NoString
  /\ session' = UserId
  /\ UNCHANGED <<cacheVars, hashVars, uploadVars, wardrobeVars, moreVars>>

NextUpload ==
  \/ SignInUpload
  \/ ResetState
  \/ toggleItemSelection
  \/ selectAllItems
  \/ deselectAllItems
  \/ analyzeImage
  \/ AnalyzeAuth
  \/ AnalyzeDetect
  \/ processSelectedItems
  \/ ProcessAuth
  \/ GenerateSettles
  \/ UploadSettles
  \/ CreateItemSettles

SpecUpload == InitUpload /\ [][NextUpload]_vars

\* The call failed while handling an item, at the upload step or at createItem.
FailedAtItem(r) ==
  r.pc = "settled" /\ r.failedAt \in { "uploading-images", "saving" }

\* The id generateUUID gave the item at position j of the selection, the call
\* having drawn ids for the first n items.
ItemIdAt(r, n, j) == r.itemId - (n - j)

\* A call that failed at its k-th item has resolved to k-1 rows, which are the
\* rows of the first k-1 selected items, in this order, and the only rows the
\* table holds under the ids of this call; it has made no call for an item
\* after the k-th.
PartialResult ==
  FailedAtItem(run) =>
    LET k == run.i
    IN  /\ run.settled = "resolved"
        /\ Len(run.ret) = k - 1
        /\ \A j \in 1..(k - 1) :
             /\ run.ret[j] \in itemsTable
             /\ run.ret[j].id = ItemIdAt(run, k, j)
             /\ run.ret[j].metadata = run.selectedItems[j].index
        /\ \A row \in itemsTable :
             row.id \in ItemIdAt(run, k, 1)..run.itemId => row \in Range(run.ret)
        /\ \A e \in Range(run.log) :
             \E j \in 1..k : e.index = run.selectedItems[j].index

\* The step in which a call fails at an item sets error, and a settled call
\* makes no further call.
FailureStep ==
  /\ (run.pc # "settled" /\ FailedAtItem(run')) => (error' # Null /\ ~isProcessing')
  /\ run.pc = "settled" => run'.log \in { run.log, <<>> }

\* C6: a processSelectedItems call that fails while handling its k-th selected
\* item, at the upload step or at createItem, does not reject: it resolves to
\* exactly the k-1 items createItem has persisted in this call, in selection
\* order, sets error to a non-null message, and makes no call for the selected
\* items after the k-th.
C6_PartialFailure == [](PartialResult) /\ [][FailureStep]_vars

\* C6 witness: a call has failed at createItem of its second item and has
\* resolved to the one item it had persisted before, with error set.
C6_Witness ==
  /\ FailedAtItem(run)
  /\ run.failedAt = "saving"
  /\ run.i = 2
  /\ Len(run.ret) = 1
  /\ run.ret[1] \in itemsTable
  /\ error # Null

\* The service functions in the order the loop body calls them.
CallNames ==
  << "generateCleanProductImage", "uploadOriginalImage", "uploadIsolatedImage", "createItem" >>

\* The position in the selection of the item the n-th call of the log is for.
PositionOf(n) == ((n - 1) \div 4) + 1

\* How many items the call has started uploading.
Drawn(r) == (Len(r.log) + 2) \div 4

\* C7: within one processSelectedItems call the selected items are handled one
\* after another in detection order, each by generateCleanProductImage, then
\* uploadOriginalImage together with uploadIsolatedImage, then createItem;
\* createItem is called once both uploads of the item are stored, generation
\* for the next item starts once the row of the previous item is in the table,
\* and no call is made for a detected item that is not selected.
C7_CallOrder ==
  run.pc # "none" =>
    /\ \A n \in 1..Len(run.log) :
         LET j == PositionOf(n)
         IN  /\ j <= Len(run.selectedItems)
             /\ run.log[n] = [ fn |-> CallNames[((n - 1) % 4) + 1],
                               index |-> run.selectedItems[j].index ]
             /\ run.log[n].fn = "createItem" =>
                  LET id == ItemIdAt(run, Drawn(run), j)
                  IN  /\ Stored(objects, OriginalPath(run.userId, id, run.imageUri))
                      /\ Stored(objects, IsolatedPath(run.userId, id))
             /\ (run.log[n].fn = "generateCleanProductImage" /\ j > 1) =>
                  /\ Len(run.createdItems) >= j - 1
                  /\ run.createdItems[j - 1] \in itemsTable
                  /\ run.createdItems[j - 1].metadata = run.selectedItems[j - 1].index
    /\ Len(run.log) % 4 # 2
    /\ \A j \in 1..Len(run.selectedItems) :
         /\ \E m \in 1..Len(run.detected) :
              run.detected[m] = run.selectedItems[j] /\ run.detected[m].selected
         /\ \A j2 \in 1..Len(run.selectedItems) :
              j < j2 => run.selectedItems[j].index < run.selectedItems[j2].index
    /\ \A m \in 1..Len(run.detected) : run.detected[m].index = m - 1

\* C7 witness: a call has handled two selected items, the four calls of the
\* first before the four calls of the second, and has returned both.
C7_Witness ==
  /\ run.pc = "settled"
  /\ run.failedAt = "none"
  /\ Len(run.log) = 8
  /\ Len(run.ret) = 2
  /\ run.log[4] = [ fn |-> "createItem", index |-> 0 ]
  /\ run.log[5] = [ fn |-> "generateCleanProductImage", index |-> 1 ]

\* The generation for the item the call is at has fallen back to the photo.
FellBack(r) == r.cleanImageUri = r.imageUri

\* generateCleanProductImage resolves whatever happens, to the original URI
\* when no image was generated; no call fails at the generation step; and the
\* item of a fallen-back generation that reaches createItem has the photo
\* stored as its isolated image.
FallbackToOriginal ==
  /\ \A uri \in PhotoUris, outcome \in GenerationOutcomes :
       LET g == generateCleanProductImage(uri, [ index |-> 0 ], outcome)
       IN  /\ g.settled = "resolved"
           /\ outcome \in GenerationFailures => g.uri = uri
  /\ run.failedAt # "generating-images"
  /\ (run.pc = "saving" /\ FellBack(run)) =>
       \E o \in objects :
         /\ o.path = IsolatedPath(run.userId, run.itemId)
         /\ o.content = "photo"

\* C10 as claimed: generateCleanProductImage never rejects and resolves to the
\* original image URI when the API key is missing, the image cannot be read,
\* the model call throws or the response holds no image; a processSelectedItems
\* call therefore never fails at the generation step, and the item is persisted
\* with the original photo uploaded as its isolated image: the uploads of such
\* an item are uploads the buckets take.
C10_FallbackPersisted ==
  /\ FallbackToOriginal
  /\ (run.pc = "uploading" /\ FellBack(run)) =>
       \A u \in uploads : u.contentType \in AllowedMimeTypes(u.path.bucket)

\* C10, the case the code handles: a PNG photo whose generation fell back has
\* been stored as the isolated image of an item that createItem has persisted.
C10_PngFallbackStored ==
  /\ run.pc = "settled"
  /\ run.failedAt = "none"
  /\ Len(run.ret) = 1
  /\ run.imageUri.ext = "png"
  /\ FellBack(run)
  /\ \E o \in objects :
       o.path = run.ret[1].isolated_image_url /\ o.content = "photo"

-----------------------------------------------------------------------------
\* The wardrobe hook: the closet's list of items, fetchItems and the
\* optimistic deleteItem over the service function deleteItem.

MaxRows == 2

\* A row of the items table that an earlier upload has left, and its images.
WardrobeRow(id) ==
  [ id |-> id, user_id |-> UserId,
    image_url |-> OriginalPath(UserId, id, [ file |-> "photo", ext |-> "jpg" ]),
    isolated_image_url |-> IsolatedPath(UserId, id), metadata |-> 0 ]
WardrobeObjects(id) ==
  { [ path |-> WardrobeRow(id).image_url, content |-> "photo" ],
    [ path |-> WardrobeRow(id).isolated_image_url, content |-> "generated" ] }

\* The rows a query of the user with this session sees (row level security:
\* auth.uid() = user_id).
OwnRows(tbl, uid) == { row \in tbl : row.user_id = uid }

\* .order("created_at", { ascending: false }): later rows (higher ids) first.
RECURSIVE Ordered(_)
Ordered(rows) ==
  IF rows = {} THEN <<>>
  ELSE LET latest == CHOOSE x \in rows : \A y \in rows : y.id <= x.id
       IN  <<latest>> \o Ordered(rows \ { latest })

\* getUserItems(userId)
getUserItems(tbl, uid, userId) == Ordered({ row \in OwnRows(tbl, uid) : row.user_id = userId })

\* A mutant of Without: the filter keeps every element.
WithoutNothing(list, itemId) == list

\* prevItems.filter((item) => item.id !== itemId)
RECURSIVE Without(_, _)
Without(list, itemId) ==
  IF list = <<>> THEN <<>>
  ELSE IF Head(list).id = itemId THEN Without(Tail(list), itemId)
  ELSE <<Head(list)>> \o Without(Tail(list), itemId)

Listed(list, itemId) == \E n \in 1..Len(list) : list[n].id = itemId
OnServer(tbl, itemId) == \E row \in tbl : row.id = itemId

\* The messages the hook shows for what the service throws: the message of an
\* Error, "Failed to delete item" for anything else.
DeleteErrorMessages == { "Failed to delete item", "TypeError: Network request failed" }

\* The closet screen has mounted and its effect has called fetchItems.
InitWardrobe ==
  /\ session \in { NoString, UserId }
  /\ table = {}
  /\ storage = {}
  /\ now = 1
  /\ call = <<>>
  /\ HashIdle
  /\ detectedItems = <<>>
  /\ isAnalyzing = FALSE
  /\ isProcessing = FALSE
  /\ currentStep = "idle"
  /\ progress = [ currentItem |-> 0, totalItems |-> 0 ]
  /\ error = Null
  /\ analysis = "none"
  /\ analyzed = NoAnalyzed
  /\ run = NoRun
  /\ uploads = {}
  /\ uuids = MaxRows
  /\ itemsTable = { WardrobeRow(id) : id \in 1..MaxRows }
  /\ objects = UNION { WardrobeObjects(id) : id \in 1..MaxRows }
  /\ wardrobeItems = <<>>
  /\ isLoading = TRUE
  /\ wardrobeError = Null
  /\ op = [ NoOp EXCEPT !.pc = "fetch-auth", !.after = "mount" ]
  /\ MoreIdle

\* fetchItems() up to its first await, called on behalf of o.
StartFetch(o, after) ==
  /\ isLoading' = TRUE
  /\ wardrobeError' = Null
  /\ op' = [ o EXCEPT !.pc = "fetch-auth", !.after = after ]

\* The end of fetchItems (its catch with the message, if any, and its
\* finally), and what the caller that awaited it does next: deleteItem
\* resolves, or its catch block sets error and rethrows.
FinishFetch(message) ==
  /\ isLoading' = FALSE
  /\ IF op.after = "catch"
       THEN /\ wardrobeError' = op.message
            /\ op' = [ op EXCEPT !.pc = "settled", !.settled = "rejected" ]
     ELSE IF op.after = "deleted"
       THEN /\ wardrobeError' = message
            /\ op' = [ op EXCEPT !.pc = "settled", !.settled = "resolved" ]
     ELSE /\ wardrobeError' = message
          /\ op' = NoOp

\* await getCurrentUserId() in fetchItems
FetchAuth ==
  /\ op.pc = "fetch-auth"
  /\ IF session = NoString
       THEN FinishFetch("User not authenticated. Please sign in.")
       ELSE /\ op' = [ op EXCEPT !.pc = "fetch-query" ]
            /\ UNCHANGED <<isLoading, wardrobeError>>
  /\ UNCHANGED <<wardrobeItems, tryonVars, hashVars, uploadVars, moreVars>>

\* await getUserItems(userId) in fetchItems: the list, or an error.
FetchQuery ==
  /\ op.pc = "fetch-query"
  /\ \/ /\ wardrobeItems' = getUserItems(itemsTable, session, session)
        /\ FinishFetch(wardrobeError)
     \/ /\ UNCHANGED wardrobeItems
        /\ FinishFetch("Failed to load wardrobe items")
  /\ UNCHANGED <<tryonVars, hashVars, uploadVars, moreVars>>

\* refreshItems()
refreshItems ==
  /\ op.pc \in { "none", "settled" }
  /\ StartFetch(NoOp, "refresh")
  /\ UNCHANGED <<wardrobeItems, tryonVars, hashVars, uploadVars, moreVars>>

\* useWardrobe.deleteItem(itemId) up to its first await: the optimistic update.
deleteItem ==
  \E itemId \in 1..MaxRows :
    /\ op.pc \in { "none", "settled" }
    /\ wardrobeItems' = Without(wardrobeItems, itemId)
    /\ op' = [ NoOp EXCEPT !.pc = "select", !.itemId = itemId,
                           !.wasListed = Listed(wardrobeItems, itemId),
                           !.service = "pending", !.settled = "pending" ]
    /\ UNCHANGED <<isLoading, wardrobeError, tryonVars, hashVars, uploadVars, moreVars>>

\* The service function throws: the await in the hook rejects and its catch
\* block calls fetchItems.
ServiceThrows(message) ==
  StartFetch([ op EXCEPT !.service = "rejected", !.message = message ], "catch")

\* The service function: select the item, .single(). No row (or an error of
\* the request) throws Error("Item not found").
ServiceSelect ==
  /\ op.pc = "select"
  /\ \/ /\ OnServer(OwnRows(itemsTable, session), op.itemId)
        /\ op' = [ op EXCEPT !.pc = "remove" ]
        /\ UNCHANGED <<isLoading, wardrobeError>>
     \/ ServiceThrows("Item not found")
  /\ UNCHANGED <<wardrobeItems, tryonVars, hashVars, uploadVars, moreVars>>

\* The service function: the images are removed from the buckets; what fails
\* to go is logged and left.
ServiceRemove ==
  /\ op.pc = "remove"
  /\ \E gone \in SUBSET { o \in objects : o.path.item = op.itemId } :
       objects' = objects \ gone
  /\ op' = [ op EXCEPT !.pc = "delete" ]
  /\ UNCHANGED <<wardrobeItems, isLoading, wardrobeError, tryonVars, hashVars, moreVars>>
  /\ UNCHANGED <<hookVars, analysis, analyzed, run, uploads, itemsTable, uuids>>

\* The service function: delete the row and return true, or throw the error
\* of the delete. On true the hook refetches.
ServiceDelete ==
  /\ op.pc = "delete"
  /\ \/ /\ itemsTable' =
             { row \in itemsTable : ~(row.id = op.itemId /\ row.user_id = session) }
        /\ StartFetch([ op EXCEPT !.service = "true" ], "deleted")
     \/ /\ \E message \in DeleteErrorMessages : ServiceThrows(message)
        /\ UNCHANGED itemsTable
  /\ UNCHANGED <<wardrobeItems, tryonVars, hashVars, moreVars>>
  /\ UNCHANGED <<hookVars, analysis, analyzed, run, uploads, objects, uuids>>

\* The same user deletes an item on another device.
RemoteDelete ==
  \E row \in itemsTable :
    /\ itemsTable' = itemsTable \ { row }
    /\ objects' = { o \in objects : o.path.item # row.id }
    /\ UNCHANGED <<wardrobeVars, tryonVars, hashVars, moreVars>>
    /\ UNCHANGED <<hookVars, analysis, analyzed, run, uploads, uuids>>

\* The user signs in while the closet is open.
SignInWardrobe ==
  /\ session = NoString
  /\ session' = UserId
  /\ UNCHANGED <<cacheVars, hashVars, uploadVars, wardrobeVars, moreVars>>

NextWardrobe ==
  \/ SignInWardrobe
  \/ RemoteDelete
  \/ refreshItems
  \/ FetchAuth
  \/ FetchQuery
  \/ deleteItem
  \/ ServiceSelect
  \/ ServiceRemove
  \/ ServiceDelete

SpecWardrobe == InitWardrobe /\ [][NextWardrobe]_vars

\* C8 as claimed: useWardrobe.deleteItem takes the item off the local list
\* before the service call resolves, and when the service call fails the hook
\* sets error, rejects, and has the item back on the list whenever the item
\* still exists on the server.
C8_RestoredOnFailure ==
  /\ op.pc \in { "select", "remove", "delete" } => ~Listed(wardrobeItems, op.itemId)
  /\ op.service = "rejected" /\ op.pc = "settled" =>
       /\ op.settled = "rejected"
       /\ wardrobeError # Null
       /\ (op.wasListed /\ OnServer(OwnRows(itemsTable, session), op.itemId)) =>
            Listed(wardrobeItems, op.itemId)

\* C8, the case the code handles: a delete has failed, the refetch has gone
\* through, and the item is on the list again.
C8_Restored ==
  /\ op.pc = "settled"
  /\ op.settled = "rejected"
  /\ op.wasListed
  /\ OnServer(itemsTable, op.itemId)
  /\ Listed(wardrobeItems, op.itemId)
  /\ wardrobeError # Null

\* C9 as claimed: the service function deleteItem resolves to true when the
\* row is deleted and to false when the item is not found or the delete
\* reports an error: it settles with a boolean, and true means the row is gone.
C9_ResolvesBoolean ==
  /\ op.service \in { "none", "pending", "true", "false" }
  /\ op.service = "true" => ~OnServer(itemsTable, op.itemId)

\* C9, the case the code handles: the service function has resolved to true
\* and the row is gone.
C9_ResolvedTrue ==
  /\ op.service = "true"
  /\ op.wasListed
  /\ ~OnServer(itemsTable, op.itemId)

-----------------------------------------------------------------------------
\* getVisualizationByItemIds: the history screen looks a stored visualization
\* up by the item ids of an outfit.

MaxVizRows == 2

\* The item lists of outfits whose visualization has been saved: one outfit in
\* two orders, an outfit with one item more, and an outfit of another item.
SavedLists ==
  { << <<97>>, <<98>> >>, << <<98>>, <<97>> >>, << <<98>>, <<97>>, <<97, 98>> >>,
    << <<97, 98>> >> }

\* The item lists the history screen asks for (outfit.itemIds): those, and
\* lists nothing was saved for.
RequestedLists ==
  SavedLists \cup { << <<97>> >>, << <<97>>, <<97>> >>, << <<98>>, <<97, 98>> >> }

\* .contains("item_ids", sortedIds): item_ids @> sortedIds, under the SELECT
\* policy (auth.uid() = user_id).
ContainingRows(tbl, uid, sortedIds) ==
  { r \in tbl : r.user_id = uid /\ Range(sortedIds) \subseteq Range(r.item_ids) }

\* JSON.stringify(dataItemsSorted) === JSON.stringify(sortedIds)
ExactMatch(row, sortedIds) == SortIds(row.item_ids) = sortedIds

\* A mutant of getVisualizationByItemIds: the exact match is not verified.
getVisualizationByItemIdsNoVerify(tbl, uid, itemIds, outcome) ==
  LET data == Single(ContainingRows(tbl, uid, SortIds(itemIds)))
  IN  IF outcome = "error" THEN [ settled |-> "resolved", row |-> NoRow ]
      ELSE [ settled |-> "resolved", row |-> data ]

\* getVisualizationByItemIds(itemIds): the request errors (null), .single()
\* has no row to give because none or several contain the ids (PGRST116, no
\* data: null), the one row is not an exact match (null), or the row.
getVisualizationByItemIds(tbl, uid, itemIds, outcome) ==
  LET sortedIds == SortIds(itemIds)
      data == Single(ContainingRows(tbl, uid, sortedIds))
  IN  IF outcome = "error" THEN [ settled |-> "resolved", row |-> NoRow ]
      ELSE IF data = NoRow THEN [ settled |-> "resolved", row |-> NoRow ]
      ELSE IF ~ExactMatch(data, sortedIds) THEN [ settled |-> "resolved", row |-> NoRow ]
      ELSE [ settled |-> "resolved", row |-> data ]

\* The rows of the user stored for exactly these ids.
ExactRows(tbl, uid, itemIds) ==
  { r \in tbl : r.user_id = uid /\ ExactMatch(r, SortIds(itemIds)) }

InitLookup ==
  /\ session \in { NoString, UserId }
  /\ table = {}
  /\ storage = {}
  /\ now = 1
  /\ call = <<>>
  /\ HashIdle
  /\ UploadIdle
  /\ WardrobeIdle
  /\ MoreIdle

\* The user signs in while the history screen is open.
SignInLookup ==
  /\ session = NoString
  /\ session' = UserId
  /\ UNCHANGED <<cacheVars, hashVars, uploadVars, wardrobeVars, moreVars>>

\* A try-on of the user has gone through: saveVisualization(combinationHash,
\* itemIds, visualizationUrl) has upserted its row.
SaveVisualization ==
  \E itemIds \in SavedLists :
    LET hash == generateCombinationHash(session, itemIds).result
        insertData ==
          [ user_id |-> session, combination_hash |-> hash, item_ids |-> itemIds,
            visualization_url |->
              VisualizationPath(session, TimestampedHash(FALSE, hash, now), "png") ]
    IN  /\ session # NoString
        /\ UpsertAllowed(table, session, insertData)
        /\ Cardinality(UpsertRows(table, insertData)) <= MaxVizRows
        /\ table' = UpsertRows(table, insertData)
        /\ table' # table
    /\ UNCHANGED <<session, storage, now, call>>
    /\ UNCHANGED <<hashVars, uploadVars, wardrobeVars, moreVars>>

\* fetchVisualizations calls getVisualizationByItemIds(outfit.itemIds).
LookupCall ==
  \E itemIds \in RequestedLists :
    /\ lookup.pc \in { "none", "settled" }
    /\ lookup' = [ pc |-> "query", itemIds |-> itemIds, result |-> NoRow,
                   settled |-> "pending", outcome |-> "none", hadExact |-> FALSE ]
    /\ UNCHANGED <<tryonVars, hashVars, uploadVars, wardrobeVars, outfitVars, profileVars, historyVars>>

\* The select of getVisualizationByItemIds comes back and the call settles.
LookupSettles ==
  \E outcome \in { "ok", "error" } :
    /\ lookup.pc = "query"
    /\ LET got == getVisualizationByItemIds(table, session, lookup.itemIds, outcome)
       IN  lookup' = [ lookup EXCEPT !.pc = "settled", !.settled = got.settled,
                                     !.result = got.row, !.outcome = outcome,
                                     !.hadExact =
                                       ExactRows(table, session, lookup.itemIds) # {} ]
    /\ UNCHANGED <<tryonVars, hashVars, uploadVars, wardrobeVars, outfitVars, profileVars, historyVars>>

NextLookup ==
  \/ SignInLookup
  \/ SaveVisualization
  \/ LookupCall
  \/ LookupSettles

SpecLookup == InitLookup /\ [][NextLookup]_vars

\* C11 as claimed: getVisualizationByItemIds returns the stored visualization
\* whose set of item ids is the requested set whenever the user has such a row
\* and the lookup does not error, in whatever order the ids are requested and
\* whatever other rows exist, rows stored for supersets included.
C11_FindsExactRow ==
  (lookup.pc = "settled" /\ lookup.outcome = "ok" /\ lookup.hadExact) =>
    /\ lookup.result # NoRow
    /\ Range(lookup.result.item_ids) = Range(lookup.itemIds)

\* C11, the case the code handles: the ids were requested in another order
\* than the row holds them, another row that does not contain them exists, and
\* the row came back.
C11_FoundAmongOthers ==
  /\ lookup.pc = "settled"
  /\ lookup.result # NoRow
  /\ lookup.result \in table
  /\ lookup.result.item_ids # lookup.itemIds
  /\ Cardinality(table) = 2

\* C18: a getVisualizationByItemIds call never rejects and never returns a
\* visualization whose set of item ids differs from the requested set: when
\* only a row for a superset of the ids exists it returns null, and when the
\* lookup errors it returns null.
C18_OnlyExactRows ==
  lookup.pc = "settled" =>
    /\ lookup.settled = "resolved"
    /\ lookup.result # NoRow =>
         /\ Range(lookup.result.item_ids) = Range(lookup.itemIds)
         /\ lookup.result.user_id = session
    /\ lookup.outcome = "error" => lookup.result = NoRow
    /\ ~lookup.hadExact => lookup.result = NoRow

\* C18 witness: the one row that contains the requested ids holds an id more,
\* the lookup went through and the call has returned null.
C18_Witness ==
  /\ lookup.pc = "settled"
  /\ lookup.outcome = "ok"
  /\ lookup.result = NoRow
  /\ Cardinality(ContainingRows(table, session, SortIds(lookup.itemIds))) = 1
  /\ ExactRows(table, session, lookup.itemIds) = {}
  /\ ~lookup.hadExact

-----------------------------------------------------------------------------
\* useOutfitGeneration: the outfit screen asks the AI service for a suggestion,
\* shows it, and saves it to the outfits table.

MaxSuggested == 8
MaxWardrobe == 3
MaxOutfits == 1

\* Characters: "0".."9", "a".."f", "A".."F", and "-".
HexDigits == (48..57) \cup (97..102) \cup (65..70)
Hyphen == 45

\* A version 4 UUID, all of whose free digits are the digit n.
Uuid(n) ==
  [ i \in 1..36 |->
      IF i \in { 9, 14, 19, 24 } THEN Hyphen
      ELSE IF i = 15 THEN 52
      ELSE IF i = 20 THEN 97
      ELSE 48 + n ]

\* Ids the AI service may make up: "item-1", a UUID with a "g" in it, a UUID
\* cut short.
BadIds ==
  { <<105, 116, 101, 109, 45, 49>>,
    [ Uuid(1) EXCEPT ![1] = 103 ],
    SubSeq(Uuid(1), 1, 35) }

\* z.string().uuid(): eight, four, four, four and twelve hexadecimal digits,
\* hyphens between them.
IsUuid(id) ==
  /\ Len(id) = 36
  /\ \A i \in 1..36 :
       IF i \in { 9, 14, 19, 24 } THEN id[i] = Hyphen ELSE id[i] \in HexDigits

\* The itemIds of a response: n ids of the wardrobe, the last one replaced by
\* bad where bad is not the empty string.
SuggestedIds(n, bad) ==
  [ i \in 1..n |-> IF i = n /\ bad # <<>> THEN bad ELSE Uuid(1 + (i % 3)) ]

\* What model.generateContent and JSON.parse leave generateOutfit with: the
\* request throws, the text is not JSON, the JSON is not an object with
\* itemIds and suggestion, or it is one.
Responses ==
  { [ kind |-> k, itemIds |-> <<>>, suggestion |-> <<>> ] :
      k \in { "throws", "not json", "other json" } }
  \cup
  { [ kind |-> "object", itemIds |-> SuggestedIds(n, bad), suggestion |-> text ] :
      n \in 0..MaxSuggested, bad \in { <<>> } \cup BadIds,
      text \in { <<>>, <<79, 75>> } }

\* The schema without its upper bound on itemIds.
OutfitSuggestionSchemaNoMax(data) ==
  /\ Len(data.itemIds) >= 2
  /\ \A i \in 1..Len(data.itemIds) : IsUuid(data.itemIds[i])
  /\ Len(data.suggestion) >= 1

\* OutfitSuggestionSchema.safeParse(parsedData).success
OutfitSuggestionSchema(data) ==
  /\ \A i \in 1..Len(data.itemIds) : IsUuid(data.itemIds[i])
  /\ Len(data.itemIds) >= 2
  /\ Len(data.itemIds) <= 7
  /\ Len(data.suggestion) >= 1

\* generateOutfit(wardrobeItems, context): the suggestion, or NoSuggestion for
\* null.
generateOutfit(response) ==
  IF response.kind = "throws" THEN NoSuggestion
  ELSE IF response.kind = "not json" THEN NoSuggestion
  ELSE IF response.kind # "object" \/ ~OutfitSuggestionSchema(response) THEN NoSuggestion
  ELSE [ itemIds |-> response.itemIds, suggestion |-> response.suggestion ]

\* CHECK (array_length(item_ids, 1) >= 2 AND array_length(item_ids, 1) <= 7):
\* array_length of an empty array is NULL, and a CHECK that is NULL passes.
outfits_item_ids_check(item_ids) ==
  \/ Len(item_ids) = 0
  \/ Len(item_ids) >= 2 /\ Len(item_ids) <= 7

\* The wardrobe the hook is given: n items of the user.
Closet(n) == [ i \in 1..n |-> WardrobeRow(i) ]

\* The guard of generateOutfitSuggestion, one item short.
TooFewItemsBelowTwo(items) == Len(items) < 2

\* wardrobeItems.length < 3
TooFewItems(items) == Len(items) < 3

TooFewItemsMessage == "You need at least 3 items in your wardrobe to generate an outfit"
GenerateFailedMessage == "Failed to generate outfit suggestion"

\* The outfit screen is open, the wardrobe loaded.
InitOutfit ==
  /\ session \in { NoString, UserId }
  /\ table = {}
  /\ storage = {}
  /\ now = 1
  /\ call = <<>>
  /\ HashIdle
  /\ UploadIdle
  /\ wardrobeItems \in { Closet(n) : n \in 0..MaxWardrobe }
  /\ isLoading = FALSE
  /\ wardrobeError = Null
  /\ op = NoOp
  /\ MoreIdle

\* useWardrobe hands the hook another list: an item was added or deleted.
ClosetChanges ==
  \E n \in { Len(wardrobeItems) - 1, Len(wardrobeItems) + 1 } :
    /\ n \in 0..MaxWardrobe
    /\ wardrobeItems' = Closet(n)
    /\ UNCHANGED <<isLoading, wardrobeError, op>>
    /\ UNCHANGED <<tryonVars, hashVars, uploadVars, moreVars>>

\* generateOutfitSuggestion(context), up to its return or its await of
\* generateOutfit.
generateOutfitSuggestion ==
  /\ gen.pc \in { "none", "settled" }
  /\ IF TooFewItems(wardrobeItems)
       THEN /\ genError' = TooFewItemsMessage
            /\ gen' = [ pc |-> "settled", items |-> Len(wardrobeItems), aiCalls |-> 0,
                        returned |-> NoSuggestion, before |-> currentOutfit ]
            /\ UNCHANGED <<genIsLoading, currentOutfit>>
       ELSE /\ genIsLoading' = TRUE
            /\ genError' = Null
            /\ currentOutfit' = NoSuggestion
            /\ gen' = [ pc |-> "ai", items |-> Len(wardrobeItems), aiCalls |-> 1,
                        returned |-> NoSuggestion, before |-> currentOutfit ]
  /\ UNCHANGED <<outfitsTable, saved>>
  /\ UNCHANGED <<tryonVars, hashVars, uploadVars, wardrobeVars, lookupVars, profileVars, historyVars>>

\* generateOutfit settles and generateOutfitSuggestion returns.
GenerateOutfitSettles ==
  \E response \in Responses :
    LET suggestion == generateOutfit(response)
    IN  /\ gen.pc = "ai"
        /\ IF suggestion = NoSuggestion
             THEN /\ genError' = GenerateFailedMessage
                  /\ UNCHANGED currentOutfit
             ELSE /\ currentOutfit' = suggestion
                  /\ UNCHANGED genError
        /\ genIsLoading' = FALSE
        /\ gen' = [ gen EXCEPT !.pc = "settled", !.returned = suggestion ]
        /\ UNCHANGED <<outfitsTable, saved>>
        /\ UNCHANGED <<tryonVars, hashVars, uploadVars, wardrobeVars, lookupVars, profileVars, historyVars>>

\* handleSaveOutfit: saveOutfit({ itemIds: currentOutfit.itemIds, ... }), the
\* insert into outfits included.
saveOutfit ==
  \E outcome \in { "ok", "error" } :
    LET insertData ==
          [ id |-> Cardinality(outfitsTable) + 1, user_id |-> session,
            item_ids |-> currentOutfit.itemIds,
            gemini_suggestion |-> currentOutfit.suggestion ]
    IN  /\ currentOutfit # NoSuggestion
        /\ Cardinality(outfitsTable) < MaxOutfits
        /\ IF session = NoString
             THEN /\ saved' = "User not authenticated"
                  /\ UNCHANGED outfitsTable
             ELSE IF outcome = "error"
             THEN /\ saved' = "error"
                  /\ UNCHANGED outfitsTable
             ELSE IF ~outfits_item_ids_check(insertData.item_ids)
             THEN /\ saved' = "outfits_item_ids_check"
                  /\ UNCHANGED outfitsTable
             ELSE /\ saved' = "saved"
                  /\ outfitsTable' = outfitsTable \cup { insertData }
        /\ UNCHANGED <<genIsLoading, genError, currentOutfit, gen>>
        /\ UNCHANGED <<tryonVars, hashVars, uploadVars, wardrobeVars, lookupVars, profileVars, historyVars>>

NextOutfit ==
  \/ ClosetChanges
  \/ generateOutfitSuggestion
  \/ GenerateOutfitSettles
  \/ saveOutfit

SpecOutfit == InitOutfit /\ [][NextOutfit]_vars

C13_TooFewItems ==
  /\ (gen.pc = "settled" /\ gen.items < 3) =>
       /\ gen.returned = NoSuggestion
       /\ gen.aiCalls = 0
       /\ genError = TooFewItemsMessage
       /\ genIsLoading = FALSE
       /\ currentOutfit = gen.before
  /\ (gen.pc # "none" /\ gen.items >= 3) => gen.aiCalls = 1

\* A call with two items, made while a suggestion was shown, has returned.
C13_Witness ==
  /\ gen.pc = "settled"
  /\ gen.items = 2
  /\ gen.before # NoSuggestion
  /\ currentOutfit = gen.before
  /\ genError = TooFewItemsMessage

-----------------------------------------------------------------------------
\* getUserProfile: get the profile row of the user, or create it.

\* profiles rows: id is the user's id (the primary key).
ProfileRow(userId) == [ id |-> userId, personal_model_url |-> NoString ]

\* .from("profiles").select("*").eq("id", userId).single()
SelectProfile(tbl, userId) == Single({ row \in tbl : row.id = userId })

\* The insert of a row whose primary key is taken fails with a duplicate key
\* error.
InsertAllowed(tbl, row) == \A other \in tbl : other.id # row.id

\* A screen is open. The signup trigger handle_new_user has made the user's
\* row, or the user signed up before the trigger existed.
InitProfile ==
  /\ session \in { NoString, UserId }
  /\ table = {}
  /\ storage = {}
  /\ now = 1
  /\ call = <<>>
  /\ HashIdle
  /\ UploadIdle
  /\ WardrobeIdle
  /\ lookup = NoLookup
  /\ OutfitIdle
  /\ profiles \in { {}, { ProfileRow(UserId) } }
  /\ getters = [ c \in Callers |-> NoGetter ]
  /\ HistoryIdle

SignInProfile ==
  /\ session = NoString
  /\ session' = UserId
  /\ UNCHANGED <<cacheVars, hashVars, uploadVars, wardrobeVars, moreVars>>

\* loadProfile of a screen calls getUserProfile(): getCurrentUserId.
GetUserProfileCall(c) ==
  /\ getters[c].pc \in { "idle", "returned", "threw" }
  /\ getters' =
       [ getters EXCEPT ![c] =
           IF session = NoString
           THEN [ NoGetter EXCEPT !.pc = "returned" ]
           ELSE [ NoGetter EXCEPT !.pc = "select" ] ]
  /\ UNCHANGED profiles
  /\ UNCHANGED <<tryonVars, hashVars, uploadVars, wardrobeVars, lookupVars, outfitVars, historyVars>>

\* The select comes back: an error other than PGRST116 is thrown, a row is
\* returned, no row leads to the insert.
ProfileSelect(c) ==
  \E outcome \in { "ok", "error" } :
    LET data == SelectProfile(profiles, session)
    IN  /\ getters[c].pc = "select"
        /\ getters' =
             [ getters EXCEPT ![c] =
                 IF outcome = "error" THEN [ @ EXCEPT !.pc = "threw", !.error = "backend" ]
                 ELSE IF data = NoRow THEN [ @ EXCEPT !.pc = "insert" ]
                 ELSE [ @ EXCEPT !.pc = "returned", !.result = data.id ] ]
        /\ UNCHANGED profiles
        /\ UNCHANGED <<tryonVars, hashVars, uploadVars, wardrobeVars, lookupVars, outfitVars, historyVars>>

\* .insert({ id: userId }).select().single() comes back: createError is
\* thrown, or the new row is returned.
ProfileInsert(c) ==
  \E outcome \in { "ok", "error" } :
    LET row == ProfileRow(session)
    IN  /\ getters[c].pc = "insert"
        /\ IF outcome = "error"
             THEN /\ getters' = [ getters EXCEPT ![c] =
                                    [ @ EXCEPT !.pc = "threw", !.error = "backend" ] ]
                  /\ UNCHANGED profiles
             ELSE IF ~InsertAllowed(profiles, row)
             THEN /\ getters' = [ getters EXCEPT ![c] =
                                    [ @ EXCEPT !.pc = "threw", !.error = "duplicate key" ] ]
                  /\ UNCHANGED profiles
             ELSE /\ getters' = [ getters EXCEPT ![c] =
                                    [ @ EXCEPT !.pc = "returned", !.result = row.id,
                                               !.inserted = TRUE ] ]
                  /\ profiles' = profiles \cup { row }
        /\ UNCHANGED <<tryonVars, hashVars, uploadVars, wardrobeVars, lookupVars, outfitVars, historyVars>>

NextProfile ==
  \/ SignInProfile
  \/ \E c \in Callers : GetUserProfileCall(c)
  \/ \E c \in Callers : ProfileSelect(c)
  \/ \E c \in Callers : ProfileInsert(c)

SpecProfile == InitProfile /\ [][NextProfile]_vars

\* C14 as claimed: a getUserProfile call made without a user returns null; a
\* call made by a signed-in user that meets no backend error returns the
\* user's profile, also when another call runs at the same time; and once a
\* call of the user has settled without a backend error exactly one profile
\* row of the user exists.
C14_GetOrCreate ==
  \A c \in Callers :
    /\ getters[c].pc = "threw" => getters[c].error = "backend"
    /\ (getters[c].pc = "returned" /\ getters[c].result # NoString) =>
         /\ getters[c].result = session
         /\ Cardinality({ row \in profiles : row.id = session }) = 1

\* What holds of concurrent calls: one call has created the row and returned
\* it, the other has found it and returned it.
C14_BothReturned ==
  /\ \A c \in Callers : getters[c].pc = "returned" /\ getters[c].result = UserId
  /\ \E c \in Callers : getters[c].inserted
  /\ Cardinality(profiles) = 1

-----------------------------------------------------------------------------
\* useUploadItem: the steps the hook shows and the state its calls leave.

\* The edges of currentStep. The last item saved, the hook calls
\* setCurrentStep("complete") and setCurrentStep("idle") one after the other,
\* which the model takes as one step from saving to idle; analysis, failure,
\* reset and completion all end in idle.
StepEdge(from, to) ==
  \/ to = "idle"
  \/ from = "idle" /\ to \in { "analyzing", "generating-images" }
  \/ from = "generating-images" /\ to = "uploading-images"
  \/ from = "uploading-images" /\ to = "saving"
  \/ from = "saving" /\ to \in { "generating-images", "complete" }

\* C15 as claimed: whatever analyzeImage, processSelectedItems and resetState
\* calls are made, currentStep changes only along the edges idle-analyzing,
\* idle-generating-images, generating-images-uploading-images,
\* uploading-images-saving, saving-generating-images, saving-complete, and any
\* step to idle; uploading-images is entered only from generating-images and
\* saving only from uploading-images.
C15_StepEdges ==
  [][currentStep' # currentStep => StepEdge(currentStep, currentStep')]_vars

\* A call without a reset in its way walks the edges: its second item is
\* being saved.
C15_SecondItemSaving ==
  /\ run.pc = "saving"
  /\ run.i = 2
  /\ currentStep = "saving"
  /\ isProcessing

\* The step at which a processSelectedItems call with a selected item settles.
ProcessSettles ==
  /\ run.pc \notin { "none", "settled" }
  /\ run'.pc = "settled"
  /\ Len(run'.selectedItems) >= 1

\* What a settling processSelectedItems call leaves.
SettledFrame ==
  ProcessSettles =>
    /\ isProcessing' = FALSE
    /\ currentStep' = "idle"
    /\ progress' = [ currentItem |-> 0, totalItems |-> 0 ]
    /\ IF run'.failedAt = "none"
         THEN /\ error' = Null
              /\ detectedItems' = <<>>
              /\ Len(run'.ret) = Len(run'.selectedItems)
         ELSE /\ error' # Null
              /\ detectedItems' = detectedItems

AnalyzeSettles == analysis # "none" /\ analysis' = "none"

\* What a settling analyzeImage call leaves.
AnalyzedFrame ==
  AnalyzeSettles =>
    /\ isAnalyzing' = FALSE
    /\ currentStep' = "idle"
    /\ \/ /\ analyzed'.returned = "list"
          /\ Len(analyzed'.items) >= 1
          /\ detectedItems' = analyzed'.items
          /\ \A k \in 1..Len(detectedItems') : detectedItems'[k].selected
          /\ \A j, k \in 1..Len(detectedItems') :
               j # k => detectedItems'[j].id # detectedItems'[k].id
          /\ error' = Null
          /\ analyzed'.detectCalls = 1
       \/ /\ analyzed'.returned = "null"
          /\ detectedItems' = <<>>
          /\ error' # Null
    /\ session = NoString =>
         /\ analyzed'.detectCalls = 0
         /\ analysis = "auth" => error' = "Please sign in to upload items."

\* C17: when an analyzeImage call made with no other call of the hook in
\* flight settles, isAnalyzing is false, currentStep is idle, and either it
\* has returned a non-empty list, detectedItems is this list, every item
\* selected, the temporary ids pairwise distinct, and error is null; or it has
\* returned null, detectedItems is empty and error is a message. Without a
\* user the detection service is not called and error is "Please sign in to
\* upload items."
C17_AnalyzedFrame == [][AnalyzedFrame]_vars

\* An analysis has returned two items, which are the detected items.
C17_Witness ==
  /\ analyzed.returned = "list"
  /\ Len(analyzed.items) = 2
  /\ detectedItems = analyzed.items
  /\ analysis = "none"
  /\ ~isAnalyzing

-----------------------------------------------------------------------------
\* useOutfitHistory: the history screen lists the saved outfits and deletes
\* one.

MaxSaved == 3

\* A saved outfit of the user.
OutfitRow(id) ==
  [ id |-> id, user_id |-> UserId, item_ids |-> SuggestedIds(2, <<>>),
    gemini_suggestion |-> <<79, 75>> ]

\* getUserOutfits(): .eq("user_id", userId).order("created_at", { ascending:
\* false })
getUserOutfits(tbl, userId) == Ordered({ row \in tbl : row.user_id = userId })

\* The del record once the screen has gone on to another call of the hook.
Forgotten(d) == IF d.pc = "settled" THEN NoDel ELSE d

\* The history screen is open; its effect is about to call fetchOutfits.
InitHistory ==
  /\ session \in { NoString, UserId }
  /\ table = {}
  /\ storage = {}
  /\ now = 1
  /\ call = <<>>
  /\ HashIdle
  /\ UploadIdle
  /\ WardrobeIdle
  /\ lookup = NoLookup
  /\ genIsLoading = FALSE
  /\ genError = Null
  /\ currentOutfit = NoSuggestion
  /\ gen = NoGen
  /\ outfitsTable \in SUBSET { OutfitRow(id) : id \in 1..MaxSaved }
  /\ saved = "none"
  /\ ProfileIdle
  /\ HistoryIdle

SignInHistory ==
  /\ session = NoString
  /\ session' = UserId
  /\ UNCHANGED <<cacheVars, hashVars, uploadVars, wardrobeVars, moreVars>>

\* fetchOutfits(), on mount or as refreshOutfits, from call to return: the
\* list is replaced, or the failure is shown and the list kept.
fetchOutfits ==
  \E outcome \in { "ok", "error" } :
    /\ del.pc \in { "none", "settled" }
    /\ IF session = NoString
         THEN /\ historyError' = "User not authenticated"
              /\ UNCHANGED outfits
         ELSE IF outcome = "error"
         THEN /\ historyError' = "Failed to load outfit history"
              /\ UNCHANGED outfits
         ELSE /\ historyError' = Null
              /\ outfits' = getUserOutfits(outfitsTable, session)
    /\ del' = Forgotten(del)
    /\ <<outfits, historyError, del>>' # <<outfits, historyError, del>>
    /\ UNCHANGED <<isDeleting, profileVars, outfitVars>>
    /\ UNCHANGED <<tryonVars, hashVars, uploadVars, wardrobeVars, lookupVars>>

\* deleteOutfit(outfitId) of the hook, up to its await of the service call.
deleteOutfit ==
  \E k \in 1..Len(outfits) :
    LET outfitId == outfits[k].id
    IN  /\ del.pc \in { "none", "settled" }
        /\ isDeleting' = TRUE
        /\ historyError' = Null
        /\ outfits' = Without(outfits, outfitId)
        /\ del' = [ NoDel EXCEPT !.pc = "service", !.outfitId = outfitId,
                                 !.before = outfits ]
        /\ UNCHANGED <<profileVars, outfitVars>>
        /\ UNCHANGED <<tryonVars, hashVars, uploadVars, wardrobeVars, lookupVars>>

\* deleteOutfit(outfitId) of the service settles: it throws without a user or
\* on a delete error, it returns true once the row is gone; the hook returns
\* true, or goes to its catch block and calls fetchOutfits.
DeleteOutfitSettles ==
  \E outcome \in { "ok", "error" } :
    /\ del.pc = "service"
    /\ IF session = NoString \/ outcome = "error"
         THEN /\ del' = [ del EXCEPT !.pc = "refetch",
                            !.message = IF session = NoString
                                          THEN "User not authenticated"
                                          ELSE "Failed to delete outfit" ]
              /\ UNCHANGED <<outfitsTable, isDeleting>>
         ELSE /\ outfitsTable' =
                   { row \in outfitsTable :
                       ~(row.id = del.outfitId /\ row.user_id = session) }
              /\ isDeleting' = FALSE
              /\ del' = [ del EXCEPT !.pc = "settled", !.returned = "true" ]
    /\ UNCHANGED <<outfits, historyError>>
    /\ UNCHANGED <<genIsLoading, genError, currentOutfit, gen, saved, profileVars>>
    /\ UNCHANGED <<tryonVars, hashVars, uploadVars, wardrobeVars, lookupVars>>

\* The fetchOutfits of the catch block returns; the catch block sets error
\* and returns false, the finally block clears isDeleting.
DeleteRefetched ==
  \E outcome \in { "ok", "error" } :
    /\ del.pc = "refetch"
    /\ IF session = NoString \/ outcome = "error"
         THEN UNCHANGED outfits
         ELSE outfits' = getUserOutfits(outfitsTable, session)
    /\ historyError' = del.message
    /\ isDeleting' = FALSE
    /\ del' = [ del EXCEPT !.pc = "settled", !.returned = "false", !.refetched = TRUE ]
    /\ UNCHANGED <<profileVars, outfitVars>>
    /\ UNCHANGED <<tryonVars, hashVars, uploadVars, wardrobeVars, lookupVars>>

NextHistory ==
  \/ SignInHistory
  \/ fetchOutfits
  \/ deleteOutfit
  \/ DeleteOutfitSettles
  \/ DeleteRefetched

SpecHistory == InitHistory /\ [][NextHistory]_vars

=============================================================================
